---- MODULE Spec2Model ----
(***************************************************************************)
(* ipi/utils/messages.py: the verbosity gate, the print helpers info and   *)
(* warning, the provenance collector (get_git_info, get_system_info,       *)
(* get_identication_info) and the banner printer.                          *)
(*                                                                         *)
(* Python values handed to the gate are records [t |-> type, v |-> text].  *)
(* Standard output is the sequence of the items printed so far.  The       *)
(* provenance functions run one external query per step; the gate and the  *)
(* print helpers are single steps.  Execution is single-threaded: a new    *)
(* call starts only when no call is running (pc = "idle").                 *)
(***************************************************************************)
EXTENDS Integers, Sequences, FiniteSets, TLC

VARIABLES
    level,        \* Verbosity.level: the integer rank
    lock,         \* Verbosity.lock: any Python value, tested for truth
    attrs,        \* other attributes stored on the instance; Unset if absent
    ret,          \* value returned by the last attribute lookup
    raised,       \* exception that left the last call, "none" if it returned
    last,         \* the call being made or last made: [op, name, arg]
    locked_at,    \* history: rank held when the gate was last seen to become locked, -1 if never
    stdout,       \* items printed so far
    pc,           \* position inside the running provenance call, "idle" if none
    issued,       \* git queries issued by the running get_git_info, in order
    git_out,      \* their outcomes, in order
    git_locals,   \* local variables of get_git_info assigned so far
    git_info,     \* return value of get_git_info
    sys_out,      \* outcome of every host query made by the running get_system_info
    sys_locals,   \* local variables of get_system_info assigned so far
    system_info,  \* return value of get_system_info
    info_string   \* return value of get_identication_info

vars == <<level, lock, attrs, ret, raised, last, locked_at, stdout, pc, issued,
          git_out, git_locals, git_info, sys_out, sys_locals, system_info,
          info_string>>

provVars == <<issued, git_out, git_locals, git_info, sys_out, sys_locals,
              system_info, info_string>>

----
\* Bounds

MaxStdout == 2

----
\* Python values

Str(s) == [t |-> "str", v |-> s]
PyTrue == [t |-> "bool", v |-> "True"]
PyFalse == [t |-> "bool", v |-> "False"]
PyNone == [t |-> "NoneType", v |-> "None"]
Unset == [t |-> "unset", v |-> ""]

PyBool(b) == IF b THEN PyTrue ELSE PyFalse

\* truth value of a Python object, as tested by `if x` and `not x`
Truthy(x) == x \notin {PyFalse, PyNone, Str("")}

----
\* Verbosity gate

VERB_QUIET == 0
VERB_LOW == 1
VERB_MEDIUM == 2
VERB_HIGH == 3
VERB_DEBUG == 4
VERB_TRACE == 5

LevelNames == {"quiet", "low", "medium", "high", "debug", "trace"}

\* names other than level and lock that the model assigns and looks up
AttrNames == {"trace", "foo"}

\* values the model assigns: the six level names, two unrecognized strings
\* and the two booleans
LevelValues == {Str(n) : n \in LevelNames} \cup {Str("bogus"), Str(""), PyTrue, PyFalse}
AttrValues == {PyTrue, PyFalse, Str("low")}

Invalid == -1

\* the if-chain of __setattr__ that maps the value to a rank; Invalid where
\* the code raises ValueError
MutLevelValue(value) ==
    CASE value = Str("quiet") -> VERB_QUIET
      [] value = Str("low") -> VERB_LOW
      [] value = Str("medium") -> VERB_MEDIUM
      [] value = Str("high") -> VERB_HIGH
      [] value = Str("debug") -> VERB_DEBUG
      [] value = Str("trace") -> VERB_TRACE
      [] OTHER -> VERB_LOW

LevelValue(value) ==
    CASE value = Str("quiet") -> VERB_QUIET
      [] value = Str("low") -> VERB_LOW
      [] value = Str("medium") -> VERB_MEDIUM
      [] value = Str("high") -> VERB_HIGH
      [] value = Str("debug") -> VERB_DEBUG
      [] value = Str("trace") -> VERB_TRACE
      [] OTHER -> Invalid

\* `if self.lock`
MutLocked == lock = PyTrue

Locked == Truthy(lock)

\* __getattr__, reached only when normal lookup finds no attribute
MutVerbosity_getattr(name) ==
    CASE name = "quiet" -> PyBool(level >= VERB_QUIET)
      [] name = "low" -> PyBool(level >= VERB_LOW)
      [] name = "medium" -> PyBool(level >= VERB_MEDIUM)
      [] name = "high" -> PyBool(level > VERB_HIGH)
      [] name = "debug" -> PyBool(level >= VERB_DEBUG)
      [] name = "trace" -> PyBool(level >= VERB_TRACE)
      [] OTHER -> Unset

Verbosity_getattr(name) ==
    CASE name = "quiet" -> PyBool(level >= VERB_QUIET)
      [] name = "low" -> PyBool(level >= VERB_LOW)
      [] name = "medium" -> PyBool(level >= VERB_MEDIUM)
      [] name = "high" -> PyBool(level >= VERB_HIGH)
      [] name = "debug" -> PyBool(level >= VERB_DEBUG)
      [] name = "trace" -> PyBool(level >= VERB_TRACE)
      [] OTHER -> Unset

\* verbosity.<name>: the instance attribute if one was stored, else
\* __getattr__; Unset stands for AttributeError
Lookup(name) ==
    IF name \in AttrNames /\ attrs[name] # Unset
    THEN attrs[name]
    ELSE Verbosity_getattr(name)

Call(op, name, arg) == [op |-> op, name |-> name, arg |-> arg]

\* verbosity.<name> = value
Verbosity_setattr(name, value) ==
    /\ pc = "idle"
    /\ last' = Call("setattr", name, value)
    /\ ret' = PyNone
    /\ IF name = "level"
       THEN IF Locked
            THEN /\ raised' = "none"
                 /\ UNCHANGED <<level, lock, attrs, locked_at>>
            ELSE IF LevelValue(value) = Invalid
                 THEN /\ raised' = "ValueError"
                      /\ UNCHANGED <<level, lock, attrs, locked_at>>
                 ELSE /\ level' = LevelValue(value)
                      /\ raised' = "none"
                      /\ UNCHANGED <<lock, attrs, locked_at>>
       ELSE /\ raised' = "none"
            /\ IF name = "lock"
               THEN /\ lock' = value
                    /\ locked_at' = IF Truthy(value) /\ ~Truthy(lock)
                                    THEN level ELSE locked_at
                    /\ UNCHANGED attrs
               ELSE /\ attrs' = [attrs EXCEPT ![name] = value]
                    /\ UNCHANGED <<lock, locked_at>>
            /\ UNCHANGED level
    /\ UNCHANGED <<stdout, pc>>
    /\ UNCHANGED provVars

\* verbosity.<name>
Verbosity_lookup(name) ==
    /\ pc = "idle"
    /\ last' = Call("getattr", name, PyNone)
    /\ IF Lookup(name) = Unset
       THEN raised' = "AttributeError" /\ ret' = PyNone
       ELSE raised' = "none" /\ ret' = Lookup(name)
    /\ UNCHANGED <<level, lock, attrs, locked_at, stdout, pc>>
    /\ UNCHANGED provVars

----
\* Print helpers

Texts == {"y"}
StackTrace == "<stack trace>"
Marker == " !W! "

info(text, show) ==
    /\ pc = "idle"
    /\ show => Len(stdout) + 1 <= MaxStdout
    /\ last' = Call("info", text, PyBool(show))
    /\ raised' = "none"
    /\ ret' = PyNone
    /\ IF ~show
       THEN UNCHANGED stdout
       ELSE stdout' = Append(stdout, text)
    /\ UNCHANGED <<level, lock, attrs, locked_at, pc>>
    /\ UNCHANGED provVars

warning(text, show) ==
    /\ pc = "idle"
    /\ show => Len(stdout) + 2 <= MaxStdout
    /\ last' = Call("warning", text, PyBool(show))
    /\ raised' = "none"
    /\ ret' = PyNone
    /\ IF ~show
       THEN UNCHANGED stdout
       ELSE stdout' = stdout
                      \o (IF Truthy(Lookup("trace")) THEN <<StackTrace>> ELSE <<>>)
                      \o <<Marker \o text>>
    /\ UNCHANGED <<level, lock, attrs, locked_at, pc>>
    /\ UNCHANGED provVars

----
\* Provenance collector

GitQueries == <<"branch_name", "last_commit", "remote_url", "commit_author",
                "commit_date", "commit_message">>
GitFields == {GitQueries[i] : i \in 1..Len(GitQueries)}

\* what subprocess.check_output does with one git command: "ok" returns the
\* output, "nonzero" raises CalledProcessError, "oserror" raises OSError
\* (the command could not be started)
GitOutcomes == {"ok", "nonzero", "oserror"}

\* the stripped and decoded output of each command in a sample repository
GitOutput(q) ==
    CASE q = "branch_name" -> "main"
      [] q = "last_commit" -> "0123456789abcdef0123456789abcdef01234567"
      [] q = "remote_url" -> "https://example.org/i-pi.git"
      [] q = "commit_author" -> "A. Author"
      [] q = "commit_date" -> "2024-01-02 03:04:05"
      [] q = "commit_message" -> "fix"

SysQueries == <<"current_folder", "machine_name", "fqdn", "os_name",
                "os_version", "processor", "num_nodes", "user_name">>
SysFields == {SysQueries[i] : i \in 1..Len(SysQueries)}

SysOutcomes == {"ok", "fail"}

\* what each host query returns on a sample machine
SysOutput(f) ==
    CASE f = "current_folder" -> "/home/user/run"
      [] f = "machine_name" -> "node01"
      [] f = "fqdn" -> "node01.example.org"
      [] f = "os_name" -> "Linux"
      [] f = "os_version" -> "#1 SMP"
      [] f = "processor" -> "x86_64"
      [] f = "num_nodes" -> 8
      [] f = "user_name" -> "user"

\* the value assigned just before each try block
SysDefault(f) == IF f = "num_nodes" THEN 0 ELSE ""

\* whether the query for f sits inside try/except Exception
SysGuarded(f) == f # "current_folder"

None == [kind |-> "None", fields |-> <<>>]
Dict(fields) == [kind |-> "dict", fields |-> fields]

\* `except subprocess.CalledProcessError: return None`
Mutget_git_info_except(locals) == Dict(locals)

get_git_info_except(locals) == None

\* the dictionary get_git_info returns after the six commands
get_git_info_return(locals) == Dict([k \in GitFields |-> locals[k]])

\* the dictionary get_system_info returns
get_system_info_return(locals) == Dict([k \in SysFields |-> locals[k]])

\* truth value of None or of a dictionary
DictTruthy(d) == d.kind = "dict" /\ DOMAIN d.fields # {}

RECURSIVE Pad(_, _)
\* the format specification :<24 : left-justify in at least 24 characters
Pad(s, w) == IF Len(s) >= w THEN s ELSE Pad(s \o " ", w)

\* str() of the integer num_nodes inside an f-string
FmtInt(n) == ToString(n)

GitNotice == "# Unable to retrieve Git information."
SysNotice == "# Unable to retrieve system information."
GitHeader == "# Git information:"
SysHeader == "# System information:"

MutGitBlock(g) ==
    (IF DictTruthy(g)
     THEN << GitHeader,
             "#      Remote URL: " \o Pad(g.fields["remote_url"], 24),
             "#          Branch: " \o Pad(g.fields["branch_name"], 24),
             "#     Last Commit: " \o Pad(g.fields["last_commit"], 24),
             "#   Commit Author: " \o Pad(g.fields["commit_author"], 24),
             "#  Commit Message: " \o Pad(g.fields["commit_message"], 24),
             "#     Commit Date: " \o Pad(g.fields["commit_date"], 24) >>
     ELSE <<>>) \o <<GitNotice>>

GitBlock(g) ==
    IF DictTruthy(g)
    THEN << GitHeader,
            "#      Remote URL: " \o Pad(g.fields["remote_url"], 24),
            "#          Branch: " \o Pad(g.fields["branch_name"], 24),
            "#     Last Commit: " \o Pad(g.fields["last_commit"], 24),
            "#   Commit Author: " \o Pad(g.fields["commit_author"], 24),
            "#  Commit Message: " \o Pad(g.fields["commit_message"], 24),
            "#     Commit Date: " \o Pad(g.fields["commit_date"], 24) >>
    ELSE <<GitNotice>>

SystemBlock(s) ==
    IF DictTruthy(s)
    THEN << SysHeader,
            "#     Current Folder: " \o s.fields["current_folder"],
            "#       Machine Name: " \o s.fields["machine_name"],
            "#               FQDN: " \o s.fields["fqdn"],
            "#   Operating System: " \o s.fields["os_name"],
            "#         OS Version: " \o s.fields["os_version"],
            "#          Processor: " \o s.fields["processor"],
            "#     Number of CPUs: " \o FmtInt(s.fields["num_nodes"]),
            "#          User Name: " \o s.fields["user_name"] >>
    ELSE <<SysNotice>>

\* the lines of the string get_identication_info builds
IdenticationLines(g, s) == GitBlock(g) \o <<"#">> \o SystemBlock(s)

BannerArt == "<i-PI v 3.0.0-beta banner>"

\* a call starts with fresh locals and no return values
Enter(op) ==
    /\ pc = "idle"
    /\ last' = Call(op, "", PyNone)
    /\ raised' = "none"
    /\ ret' = PyNone
    /\ issued' = <<>>
    /\ git_out' = <<>>
    /\ git_locals' = <<>>
    /\ git_info' = [kind |-> "unset", fields |-> <<>>]
    /\ sys_out' = <<>>
    /\ sys_locals' = <<>>
    /\ system_info' = [kind |-> "unset", fields |-> <<>>]
    /\ info_string' = [kind |-> "unset", lines |-> <<>>]
    /\ UNCHANGED <<level, lock, attrs, locked_at>>

\* get_git_info() called directly
get_git_info ==
    /\ Enter("get_git_info")
    /\ pc' = "git"
    /\ UNCHANGED stdout

\* get_system_info() called directly
get_system_info ==
    /\ Enter("get_system_info")
    /\ pc' = "sys"
    /\ UNCHANGED stdout

\* get_identication_info() called directly; its first statement calls get_git_info
get_identication_info ==
    /\ Enter("get_identication_info")
    /\ pc' = "git"
    /\ UNCHANGED stdout

\* banner(): prints the art, then calls get_identication_info
banner ==
    /\ Len(stdout) + 2 <= MaxStdout
    /\ Enter("banner")
    /\ stdout' = Append(stdout, BannerArt)
    /\ pc' = "git"

\* where control goes when get_git_info returns
AfterGit == IF last.op = "get_git_info" THEN "idle" ELSE "sys"

\* where control goes when get_system_info returns
AfterSys == IF last.op = "get_system_info" THEN "idle" ELSE "format"

\* one subprocess.check_output call of get_git_info
git_query ==
    /\ pc = "git"
    /\ \E out \in GitOutcomes :
        LET q == GitQueries[Len(issued) + 1]
            locals == git_locals @@ (q :> GitOutput(q))
        IN  /\ issued' = Append(issued, q)
            /\ git_out' = Append(git_out, out)
            /\ CASE out = "ok" ->
                      /\ git_locals' = locals
                      /\ raised' = raised
                      /\ IF Len(issued) + 1 = Len(GitQueries)
                         THEN /\ git_info' = get_git_info_return(locals)
                              /\ pc' = AfterGit
                         ELSE UNCHANGED <<git_info, pc>>
                 [] out = "nonzero" ->
                      /\ git_info' = get_git_info_except(git_locals)
                      /\ pc' = AfterGit
                      /\ UNCHANGED <<git_locals, raised>>
                 [] out = "oserror" ->
                      /\ raised' = "OSError"
                      /\ pc' = "idle"
                      /\ UNCHANGED <<git_locals, git_info>>
    /\ UNCHANGED <<level, lock, attrs, ret, last, locked_at, stdout>>
    /\ UNCHANGED <<sys_out, sys_locals, system_info, info_string>>

\* one host query of get_system_info
sys_query ==
    /\ pc = "sys"
    /\ \E out \in SysOutcomes :
        LET f == SysQueries[Cardinality(DOMAIN sys_out) + 1]
            value == IF out = "ok" THEN SysOutput(f) ELSE SysDefault(f)
            locals == sys_locals @@ (f :> value)
        IN  /\ sys_out' = sys_out @@ (f :> out)
            /\ IF out = "fail" /\ ~SysGuarded(f)
               THEN /\ raised' = "OSError"
                    /\ pc' = "idle"
                    /\ UNCHANGED <<sys_locals, system_info>>
               ELSE /\ sys_locals' = locals
                    /\ raised' = raised
                    /\ IF Cardinality(DOMAIN sys_out) + 1 = Len(SysQueries)
                       THEN /\ system_info' = get_system_info_return(locals)
                            /\ pc' = AfterSys
                       ELSE UNCHANGED <<system_info, pc>>
    /\ UNCHANGED <<level, lock, attrs, ret, last, locked_at, stdout>>
    /\ UNCHANGED <<issued, git_out, git_locals, git_info, info_string>>

\* the rest of get_identication_info: build and return the string
format_info ==
    /\ pc = "format"
    /\ info_string' = [kind |-> "str", lines |-> IdenticationLines(git_info, system_info)]
    /\ pc' = IF last.op = "banner" THEN "print" ELSE "idle"
    /\ UNCHANGED <<level, lock, attrs, ret, raised, last, locked_at, stdout>>
    /\ UNCHANGED <<issued, git_out, git_locals, git_info, sys_out, sys_locals, system_info>>

\* the last statement of banner: print(info_string)
print_info ==
    /\ pc = "print"
    /\ stdout' = Append(stdout, info_string.lines)
    /\ pc' = "idle"
    /\ UNCHANGED <<level, lock, attrs, ret, raised, last, locked_at>>
    /\ UNCHANGED provVars

----
Init ==
    /\ level = VERB_LOW
    /\ lock = PyFalse
    /\ attrs = [n \in AttrNames |-> Unset]
    /\ ret = PyNone
    /\ raised = "none"
    /\ last = Call("none", "", PyNone)
    /\ locked_at = -1
    /\ stdout = <<>>
    /\ pc = "idle"
    /\ issued = <<>>
    /\ git_out = <<>>
    /\ git_locals = <<>>
    /\ git_info = [kind |-> "unset", fields |-> <<>>]
    /\ sys_out = <<>>
    /\ sys_locals = <<>>
    /\ system_info = [kind |-> "unset", fields |-> <<>>]
    /\ info_string = [kind |-> "unset", lines |-> <<>>]

NextGate ==
    \/ \E value \in LevelValues : Verbosity_setattr("level", value)
    \/ \E name \in {"lock"} \cup AttrNames, value \in AttrValues : Verbosity_setattr(name, value)
    \/ \E name \in LevelNames \cup AttrNames : Verbosity_lookup(name)
    \/ \E text \in Texts, show \in BOOLEAN : info(text, show)
    \/ \E text \in Texts, show \in BOOLEAN : warning(text, show)

NextProv ==
    \/ get_git_info
    \/ get_system_info
    \/ get_identication_info
    \/ banner
    \/ git_query
    \/ sys_query
    \/ format_info
    \/ print_info

Next == NextGate \/ NextProv

SpecGate == Init /\ [][NextGate]_vars
SpecProv == Init /\ [][NextProv]_vars
Spec == Init /\ [][Next]_vars

----
\* Properties of the verbosity gate (checked under SpecGate)

\* rank of each level name
Rank(n) ==
    CASE n = "quiet" -> 0
      [] n = "low" -> 1
      [] n = "medium" -> 2
      [] n = "high" -> 3
      [] n = "debug" -> 4
      [] n = "trace" -> 5

\* no attribute named n was stored on the instance, as is the case in every
\* state reached by level assignments alone
Unshadowed(n) == n \notin AttrNames \/ attrs[n] = Unset

ValidLevels == {Str(n) : n \in LevelNames}

\* C1: for each of the six level names that no stored attribute hides, the
\* query verbosity.<name> is true iff the current rank is >= the rank of the
\* name; the result of a lookup just made is that value; and after level L
\* was set on an unlocked gate the query is true exactly for L and the
\* levels below it.
C1_QueryIffRank ==
    /\ \A n \in LevelNames :
          Unshadowed(n) => Lookup(n) = PyBool(level >= Rank(n))
    /\ (last.op = "getattr" /\ last.name \in LevelNames /\ Unshadowed(last.name))
          => (raised = "none" /\ ret = PyBool(level >= Rank(last.name)))
    /\ (last.op = "setattr" /\ last.name = "level" /\ last.arg \in ValidLevels /\ ~Truthy(lock))
          => \A n \in LevelNames :
                Unshadowed(n) => Lookup(n) = PyBool(Rank(n) <= Rank(last.arg.v))

C1_Witness ==
    /\ last = Call("setattr", "level", Str("medium"))
    /\ ~Truthy(lock)
    /\ level = 2
    /\ Unshadowed("trace")
    /\ Lookup("low") = PyTrue
    /\ Lookup("medium") = PyTrue
    /\ Lookup("high") = PyFalse

\* C2 as stated: in every state of the gate, assigning a level that is not
\* one of the six names raises ValueError and leaves the rank unchanged.
C2_Original ==
    [][(last'.op = "setattr" /\ last'.name = "level" /\ last'.arg \notin ValidLevels)
          => (raised' = "ValueError" /\ level' = level)]_vars

\* C2 amended: on a gate that is not locked, assigning a level that is not
\* one of the six names raises ValueError and leaves the rank unchanged.
C2_InvalidLevelRaises ==
    [][(last'.op = "setattr" /\ last'.name = "level" /\ last'.arg \notin ValidLevels
            /\ ~Truthy(lock))
          => (raised' = "ValueError" /\ level' = level)]_vars

C2_Witness ==
    /\ last = Call("setattr", "level", Str("bogus"))
    /\ ~Truthy(lock)
    /\ raised = "ValueError"
    /\ level = VERB_HIGH

\* C3: while the lock flag is true, a level assignment of any value, valid
\* or not, leaves the rank unchanged and raises no error.
C3_LockedIsNoOp ==
    [][(last'.op = "setattr" /\ last'.name = "level" /\ Truthy(lock))
          => (raised' = "none" /\ level' = level)]_vars

C3_Witness ==
    /\ last = Call("setattr", "level", Str("bogus"))
    /\ Truthy(lock)
    /\ raised = "none"
    /\ level = VERB_HIGH

\* C4 as stated: once the gate has been locked, the rank held at the moment
\* of locking is the rank in every later state.
C4_Original == locked_at # -1 => level = locked_at

\* C8 as stated: warning writes iff show is true; what it writes ends with
\* the marker line, preceded by a stack trace iff the rank is trace (5).
C8_Original ==
    [][last'.op = "warning"
          => stdout' = IF last'.arg = PyTrue
                       THEN stdout
                            \o (IF level = 5 THEN <<StackTrace>> ELSE <<>>)
                            \o <<" !W! " \o last'.name>>
                       ELSE stdout]_vars

\* C10 as stated: assigning to any attribute name other than level raises
\* ValueError and changes nothing on the gate.
C10_Original ==
    [][(last'.op = "setattr" /\ last'.name # "level")
          => (raised' = "ValueError" /\ UNCHANGED <<level, lock, attrs>>)]_vars

----
\* Properties of the provenance collector (checked under SpecProv)

Range(q) == {q[i] : i \in 1..Len(q)}

\* C5: the six queries are issued in the order branch, commit hash, remote
\* URL, author, date, message; a query that exits non-zero is the last one
\* issued and makes get_git_info return None; a record is returned only
\* after all six succeeded and then carries all six fields.
C5_AllOrNothing ==
    /\ Len(issued) <= 6
    /\ Len(git_out) = Len(issued)
    /\ \A i \in 1..Len(issued) :
          issued[i] = <<"branch_name", "last_commit", "remote_url",
                        "commit_author", "commit_date", "commit_message">>[i]
    /\ \A i \in 1..Len(git_out) :
          git_out[i] = "nonzero" => (i = Len(git_out) /\ git_info.kind = "None")
    /\ git_info.kind \in {"unset", "None", "dict"}
    /\ git_info.kind = "None" => git_info.fields = <<>>
    /\ git_info.kind = "dict" <=>
          (Len(git_out) = 6 /\ \A i \in 1..6 : git_out[i] = "ok")
    /\ git_info.kind = "dict" =>
          /\ DOMAIN git_info.fields = {"branch_name", "last_commit", "remote_url",
                                       "commit_author", "commit_date", "commit_message"}
          /\ \A k \in DOMAIN git_info.fields : git_info.fields[k] = GitOutput(k)

C5_Witness ==
    /\ last.op = "get_git_info"
    /\ pc = "idle"
    /\ git_out = <<"ok", "ok", "nonzero">>
    /\ issued = <<"branch_name", "last_commit", "remote_url">>
    /\ git_info.kind = "None"
    /\ raised = "none"

\* C6 as stated: when the host query of exactly one of the eight fields
\* fails, get_system_info still returns a record in which that field holds
\* its default and the other seven hold their queried values.
C6_Original ==
    \A f \in SysFields :
        (/\ last.op = "get_system_info"
         /\ pc = "idle"
         /\ f \in DOMAIN sys_out
         /\ sys_out[f] = "fail"
         /\ \A g \in DOMAIN sys_out \ {f} : sys_out[g] = "ok")
        => /\ raised = "none"
           /\ system_info.kind = "dict"
           /\ DOMAIN system_info.fields = SysFields
           /\ system_info.fields[f] = SysDefault(f)
           /\ \A g \in SysFields \ {f} : system_info.fields[g] = SysOutput(g)

\* C7 as stated: whatever the outcomes of the queries, banner prints the
\* art, then the provenance block, and returns normally.
C7_Original ==
    (last.op = "banner" /\ pc = "idle")
    => /\ raised = "none"
       /\ info_string.kind = "str"
       /\ Len(stdout) >= 2
       /\ stdout[Len(stdout) - 1] = BannerArt
       /\ stdout[Len(stdout)] = info_string.lines

\* C9: the block get_identication_info returns holds the Git notice iff the
\* version-control record is absent and the six-line Git block otherwise,
\* then a separator and the system block with its eight fields; it never
\* holds the system notice.
C9_GitNoticeIffAbsent ==
    info_string.kind = "str" =>
        LET L == info_string.lines
            n == IF git_info.kind = "None" THEN 1 ELSE 7
        IN  /\ git_info.kind \in {"None", "dict"}
            /\ "# Unable to retrieve Git information." \in Range(L)
                  <=> git_info.kind = "None"
            /\ "# Git information:" \in Range(L) <=> git_info.kind = "dict"
            /\ git_info.kind = "None" => L[1] = "# Unable to retrieve Git information."
            /\ git_info.kind = "dict" =>
                  /\ L[1] = "# Git information:"
                  /\ L[3] = "#          Branch: main                    "
                  /\ Cardinality({L[i] : i \in 2..7}) = 6
            /\ Len(L) = n + 1 + 9
            /\ L[n + 1] = "#"
            /\ L[n + 2] = "# System information:"
            /\ L[n + 3] = "#     Current Folder: /home/user/run"
            /\ L[n + 9] = IF sys_out["num_nodes"] = "ok"
                          THEN "#     Number of CPUs: 8"
                          ELSE "#     Number of CPUs: 0"
            /\ L[n + 10] = IF sys_out["user_name"] = "ok"
                          THEN "#          User Name: user"
                           ELSE "#          User Name: "
            /\ Cardinality({L[i] : i \in (n + 3)..(n + 10)}) = 8
            /\ "# Unable to retrieve system information." \notin Range(L)

C9_Witness ==
    /\ last.op = "get_identication_info"
    /\ pc = "idle"
    /\ info_string.kind = "str"
    /\ git_info.kind = "None"
    /\ info_string.lines[1] = GitNotice
    /\ sys_out["machine_name"] = "fail"
    /\ Len(info_string.lines) = 11

====
